---- MODULE Spec2Model ----
(***************************************************************************)
(* The `dns <domain>` command of web-redirects-cli (src/commands/dns.js):  *)
(* look the zone id up in the local cache, fetch the zone's DNS records    *)
(* and Page Rules, classify the DNS records against the records the Page   *)
(* Rules require, and offer to delete / create records at the provider.    *)
(*                                                                         *)
(* The helpers imported from ../lib/shared.js are not part of the source   *)
(* at hand; they are modelled from the specification (sections 4 and 6).   *)
(*                                                                         *)
(* The `domains` command of the same file (lines 199-341) is the second    *)
(* specification, SpecDomains: list the zones, store them in the cache,    *)
(* and offer to create the zones and Page Rules of the descriptions that   *)
(* have no zone yet.                                                       *)
(***************************************************************************)
EXTENDS Integers, Sequences, FiniteSets, TLC

(* ---------------------------------------------------------------------- *)
(* Bounds and value universes                                              *)
(* ---------------------------------------------------------------------- *)
MaxLive == 2    \* at most this many live DNS records in the zone
MaxRules == 2   \* at most this many Page Rules in the zone

Domain == "example.com"
Hosts == {"h1", "h2"}

\* the DNS records the provider may hold for the zone
LiveUniverse ==
    [type : {"CNAME"}, name : Hosts, content : {"apex"}, proxied : BOOLEAN]
    \cup [type : {"CNAME"}, name : Hosts, content : {"old"}, proxied : {TRUE}]
    \cup [type : {"MX"}, name : Hosts, content : {"mail"}, proxied : {FALSE}]

\* a Page Rule, reduced to what a required DNS record is derived from
PageRules == [host : Hosts, proxied : BOOLEAN]

MaxRedirects == 2   \* at most this many redirects in a redirect description

\* the files the configuration directory may hold
Files == {"d1.yaml", "d2.json", ".hidden"}

\* a redirect of a description: one the converter maps to a Page Rule, or
\* one it cannot map
Redirects == {"well-formed", "malformed"}

Range(s) == {s[i] : i \in DOMAIN s}

BoundedSeqs(S, n) == UNION {[1..k -> S] : k \in 0..n}

Slot(r) == <<r.type, r.name>>

(* ---------------------------------------------------------------------- *)
(* Helpers of ../lib/shared.js                                             *)
(* ---------------------------------------------------------------------- *)
\* the record a Page Rule's target hostname must resolve through
requiredDNSRecordFor(rule) ==
    [type |-> "CNAME", name |-> rule.host, content |-> "apex",
     proxied |-> rule.proxied]

RECURSIVE buildRequiredFrom(_, _, _)
buildRequiredFrom(rules, i, acc) ==
    IF i > Len(rules) THEN acc
    ELSE LET rec == requiredDNSRecordFor(rules[i])
         IN  IF \E j \in DOMAIN acc : Slot(acc[j]) = Slot(rec)
             THEN buildRequiredFrom(rules, i + 1, acc)
             ELSE buildRequiredFrom(rules, i + 1, Append(acc, rec))

\* one record per Page Rule, duplicates kept
buildRequiredDNSRecordsForPagerules_NoDedup(rules) ==
    [i \in 1..Len(rules) |-> requiredDNSRecordFor(rules[i])]

\* one record per Page Rule, deduplicated by (type, name), first rule wins
buildRequiredDNSRecordsForPagerules(rules) == buildRequiredFrom(rules, 1, <<>>)

\* same (type, name) and same content / proxied; TTL is not compared
hasDNSRecord(required, line) ==
    \E j \in DOMAIN required :
        /\ Slot(required[j]) = Slot(line)
        /\ required[j].content = line.content
        /\ required[j].proxied = line.proxied

\* same (type, name) but different content or proxied
hasConflictingDNSRecord(required, line) ==
    \E j \in DOMAIN required :
        /\ Slot(required[j]) = Slot(line)
        /\ \/ required[j].content # line.content
           \/ required[j].proxied # line.proxied

\* one delete request per record of the list, in list order
deleteTheseDNSRecords(records) ==
    [i \in 1..Len(records) |-> [op |-> "delete", rec |-> records[i]]]

\* one create request per record of the list, in list order
createTheseDNSRecords(records) ==
    [i \in 1..Len(records) |-> [op |-> "create", rec |-> records[i]]]

(* ---------------------------------------------------------------------- *)
(* The provider                                                            *)
(* ---------------------------------------------------------------------- *)
\* the provider lists the records of a zone in a fixed order: by name, and
\* under a name the CNAME records before the MX record
ListRank(r) ==
    (IF r.name = "h1" THEN 0 ELSE 4)
    + (CASE r.type = "MX" -> 3
         [] r.content = "old" -> 2
         [] r.proxied -> 0
         [] OTHER -> 1)

RECURSIVE fetchDNSRecords(_)
fetchDNSRecords(z) ==
    IF z = {} THEN <<>>
    ELSE LET first == CHOOSE x \in z : \A y \in z : ListRank(x) <= ListRank(y)
         IN  <<first>> \o fetchDNSRecords(z \ {first})

\* a create is rejected while a record occupies the same (type, name)
ProviderAcceptsCreate(z, rec) == \A l \in z : Slot(l) # Slot(rec)

ProviderApply(z, req) ==
    IF req.op = "delete" THEN z \ {req.rec}
    ELSE IF ProviderAcceptsCreate(z, req.rec) THEN z \cup {req.rec}
    ELSE z

(* ---------------------------------------------------------------------- *)
(* dns.js, exports.handler: the pure parts                                 *)
(* ---------------------------------------------------------------------- *)
\* results.map(resp => resp.data.success ? resp.data.result : false)
ResultOf(resp, body) == IF resp = "ok" THEN body ELSE <<>>

\* as Promise.race would: run as soon as the Page Rules are there
PromiseAllFulfilled_FirstAnswer(dns, pr) == pr \in {"ok", "fail"}

\* Promise.all(...).then runs once both requests have been answered
PromiseAllFulfilled(dns, pr) == dns \in {"ok", "fail"} /\ pr \in {"ok", "fail"}

\* Promise.all(...) rejects as soon as one of the requests rejects
PromiseAllRejected(dns, pr) == dns = "rejected" \/ pr = "rejected"

\* dns_records.length > 0 (false.length is undefined, undefined > 0 is false)
HasLiveRecords(ok, records) == ok /\ Len(records) > 0

\* the final else pushes the line on conflicts as well
ClassifyLine_ElseConflicts(required, line, acc) ==
    IF hasDNSRecord(required, line)
    THEN [acc EXCEPT !.properly_proxied = Append(@, line),
                     !.table = Append(@, [line |-> line, colour |-> "green"])]
    ELSE [acc EXCEPT !.conflicts = Append(@, line),
                     !.table = Append(@, [line |-> line, colour |-> "orange"])]

\* `else if` written as `if`: a matching line is tested for a conflict too,
\* and the conflict test looks at the (type, name) only
ClassifyLine_NoElse(required, line, acc) ==
    LET a1 == IF hasDNSRecord(required, line)
              THEN [acc EXCEPT !.properly_proxied = Append(@, line),
                               !.table = Append(@, [line |-> line, colour |-> "green"])]
              ELSE acc
    IN  IF \E j \in DOMAIN required : Slot(required[j]) = Slot(line)
        THEN [a1 EXCEPT !.conflicts = Append(@, line),
                        !.table = Append(@, [line |-> line, colour |-> "orange"])]
        ELSE [a1 EXCEPT !.table = Append(@, [line |-> line, colour |-> "white"])]

\* the body of dns_records.forEach: push the line on a bucket, add its row
ClassifyLine(required, line, acc) ==
    IF hasDNSRecord(required, line)
    THEN [acc EXCEPT !.properly_proxied = Append(@, line),
                     !.table = Append(@, [line |-> line, colour |-> "green"])]
    ELSE IF hasConflictingDNSRecord(required, line)
    THEN [acc EXCEPT !.conflicts = Append(@, line),
                     !.table = Append(@, [line |-> line, colour |-> "orange"])]
    ELSE [acc EXCEPT !.table = Append(@, [line |-> line, colour |-> "white"])]

RECURSIVE ClassifyFrom(_, _, _, _)
ClassifyFrom(required, records, i, acc) ==
    IF i > Len(records) THEN acc
    ELSE ClassifyFrom(required, records, i + 1,
                      ClassifyLine(required, records[i], acc))

EmptyClassification == [properly_proxied |-> <<>>, conflicts |-> <<>>, table |-> <<>>]

Classify(required, records) == ClassifyFrom(required, records, 1, EmptyClassification)

\* properly_proxied.length === 0 || conflicts.length > 0
WillNotWork(proper, confl) == Len(proper) = 0 \/ Len(confl) > 0

\* the default case falls into case 'required'
WhichApproachRequests_SkipFallsThrough(approach, records, confl, required) ==
    CASE approach = "all" ->
            deleteTheseDNSRecords(records) \o createTheseDNSRecords(required)
      [] OTHER ->
            deleteTheseDNSRecords(confl) \o createTheseDNSRecords(required)

\* case 'required' deletes dns_records instead of conflicts
WhichApproachRequests_RequiredDeletesAll(approach, records, confl, required) ==
    CASE approach \in {"all", "required"} ->
            deleteTheseDNSRecords(records) \o createTheseDNSRecords(required)
      [] OTHER -> <<>>

\* case 'all' deletes conflicts instead of dns_records
WhichApproachRequests_AllDeletesConflicts(approach, records, confl, required) ==
    CASE approach \in {"all", "required"} ->
            deleteTheseDNSRecords(confl) \o createTheseDNSRecords(required)
      [] OTHER -> <<>>

\* case 'required' stops after the deletions
WhichApproachRequests_RequiredNoCreate(approach, records, confl, required) ==
    CASE approach = "all" ->
            deleteTheseDNSRecords(records) \o createTheseDNSRecords(required)
      [] approach = "required" -> deleteTheseDNSRecords(confl)
      [] OTHER -> <<>>

\* case 'required' repeats the deletions after the creations
WhichApproachRequests_Retry(approach, records, confl, required) ==
    CASE approach = "all" ->
            deleteTheseDNSRecords(records) \o createTheseDNSRecords(required)
      [] approach = "required" ->
            deleteTheseDNSRecords(confl) \o createTheseDNSRecords(required)
            \o deleteTheseDNSRecords(confl)
      [] OTHER -> <<>>

\* switch (answers.whichApproach): the requests issued, in order
WhichApproachRequests(approach, records, confl, required) ==
    CASE approach = "all" ->
            deleteTheseDNSRecords(records) \o createTheseDNSRecords(required)
      [] approach = "required" ->
            deleteTheseDNSRecords(confl) \o createTheseDNSRecords(required)
      [] OTHER -> <<>>

\* the test of the answer is inverted
ConfirmCreateRequests_Inverted(confirm, required) ==
    IF confirm THEN <<>> ELSE createTheseDNSRecords(required)

\* if (answers.confirmCreateIntent) createTheseDNSRecords(...)
ConfirmCreateRequests(confirm, required) ==
    IF confirm THEN createTheseDNSRecords(required) ELSE <<>>

\* the stages a classification is followed by: the prompt, if one opens
StagesAfterClassify(next) ==
    IF next \in {"whichApproach", "confirmCreateIntent"}
    THEN <<"Classify", "Choose-strategy">>
    ELSE <<"Classify">>

\* the stages an answer is followed by: a plan and its execution, unless
\* the user chose to do nothing
StagesAfterAnswer(given) ==
    IF given \in {"all", "required", "yes"} THEN <<"Plan", "Execute">> ELSE <<>>

(* ---------------------------------------------------------------------- *)
(* State                                                                   *)
(* ---------------------------------------------------------------------- *)
VARIABLES
    pc,                   \* where the handler and its callbacks stand
    db,                   \* the local cache: the zone names it holds
    dbClosed,             \* db.close() has been called
    zone,                 \* the provider's DNS records of the zone
    zonePagerules,        \* the provider's Page Rules of the zone
    dnsResp, prResp,      \* the two axios.get requests
    dnsBody, prBody,      \* the result lists the provider answered with
    fetchOrder,           \* the requests in the order they were answered
    dns_ok, dns_records,  \* dns_records, and whether it is a list at all
    pagerules,
    required_dns_records,
    properly_proxied, conflicts, table,
    reported,             \* what the handler told the user
    answer,               \* the user's answer to the prompt
    issued,               \* the delete / create requests issued, in order
    pending,              \* the issued requests the provider has not answered
    zone0,                \* the zone's records when the run started
    dbGet,                \* the db.get(argv.domain) lookup
    stages                \* the stages of the workflow entered so far

\* the state of the dns command, the cache apart
dnsVars == <<pc, zone, zonePagerules, dnsResp, prResp, dnsBody, prBody,
             fetchOrder, dns_ok, dns_records, pagerules, required_dns_records,
             properly_proxied, conflicts, table, reported, answer, issued,
             pending, zone0, dbGet, stages>>

VARIABLES
    pcD,                  \* where the domains handler and its callbacks stand
    cloudZones,           \* the zones the account has at the provider
    configDir,            \* configDir.contents: file name -> description
    conversionFailure,    \* how convertRedirectToPageRule fails
    dbPuts,               \* the db.put(zone.name, zone.id) calls not settled
    missing,              \* the description files without a zone
    confirmCreateIntent,  \* the answer to "... create the missing zones ...?"
    accountsResp,         \* the GET /accounts request
    confirmCreate,        \* per file: the "Add <domain> to <account>?" prompt
    zonePost,             \* per file: the POST /zones request
    proceed,              \* per redirect: the "Shall we continue?" prompt
    rulePost,             \* per redirect: the POST /zones/:id/pagerules request
    converted,            \* the redirects converted to a Page Rule
    errorsLogged          \* the files / redirects console.error was called for

\* the state of the domains command, the cache apart
domVars == <<pcD, cloudZones, configDir, conversionFailure, dbPuts, missing,
             confirmCreateIntent, accountsResp, confirmCreate, zonePost,
             proceed, rulePost, converted, errorsLogged>>

RuleKeys == Files \X (1..MaxRedirects)

\* the domains command is not running
DomainsIdle ==
    /\ pcD = "idle"
    /\ cloudZones = {}
    /\ configDir = <<>>
    /\ conversionFailure = "throws"
    /\ dbPuts = {}
    /\ missing = {}
    /\ confirmCreateIntent = "none"
    /\ accountsResp = "none"
    /\ confirmCreate = [f \in Files |-> "none"]
    /\ zonePost = [f \in Files |-> "none"]
    /\ proceed = [key \in RuleKeys |-> "none"]
    /\ rulePost = [key \in RuleKeys |-> "none"]
    /\ converted = {}
    /\ errorsLogged = {}

vars == <<db, dbClosed, dnsVars, domVars>>

Zones == {z \in SUBSET LiveUniverse : Cardinality(z) <= MaxLive}

Init ==
    /\ pc = "start"
    /\ db \in {{}, {Domain}}
    /\ dbClosed = FALSE
    /\ zone \in Zones
    /\ zone0 = zone
    /\ zonePagerules \in BoundedSeqs(PageRules, MaxRules)
    /\ dnsResp = "none" /\ prResp = "none"
    /\ dnsBody = <<>> /\ prBody = <<>>
    /\ fetchOrder = <<>>
    /\ dns_ok = FALSE /\ dns_records = <<>>
    /\ pagerules = <<>>
    /\ required_dns_records = <<>>
    /\ properly_proxied = <<>> /\ conflicts = <<>> /\ table = <<>>
    /\ reported = "nothing"
    /\ answer = "none"
    /\ issued = <<>>
    /\ pending = {}
    /\ dbGet = "none"
    /\ stages = <<>>
    /\ DomainsIdle

(* ---------------------------------------------------------------------- *)
(* Actions                                                                 *)
(* ---------------------------------------------------------------------- *)
\* exports.handler(argv): without a domain report it; otherwise open the
\* cache, start db.get(argv.domain) and call db.close()
Handler ==
    /\ pc = "start"
    /\ \E hasDomain \in BOOLEAN :
        IF hasDomain
        THEN /\ pc' = "dbget"
             /\ dbGet' = "pending"
             /\ dbClosed' = TRUE
             /\ UNCHANGED reported
        ELSE /\ pc' = "done"
             /\ reported' = "which domain"
             /\ UNCHANGED <<dbClosed, dbGet>>
    /\ UNCHANGED <<db, zone, zonePagerules, dnsResp, prResp, dnsBody, prBody,
                   fetchOrder, dns_ok, dns_records, pagerules,
                   required_dns_records, properly_proxied, conflicts, table,
                   answer, issued, pending, zone0, stages,
                   domVars>>

\* db.get(...).then: the zone id is known, issue both axios.get requests
DbGetThen ==
    /\ pc = "dbget"
    /\ Domain \in db
    /\ pc' = "fetching"
    /\ dnsResp' = "pending"
    /\ prResp' = "pending"
    /\ dbGet' = "resolved"
    /\ stages' = Append(stages, "Fetch")
    /\ UNCHANGED <<db, dbClosed, zone, zonePagerules, dnsBody, prBody,
                   fetchOrder, dns_ok, dns_records, pagerules,
                   required_dns_records, properly_proxied, conflicts, table,
                   reported, answer, issued, pending, zone0,
                   domVars>>

\* the catch logs the error and the requests are issued all the same
DbGetCatch_FetchesAnyway ==
    /\ pc = "dbget"
    /\ Domain \notin db \/ dbClosed
    /\ pc' = "fetching"
    /\ reported' = "console.error"
    /\ dbGet' = "rejected"
    /\ dnsResp' = "pending"
    /\ prResp' = "pending"
    /\ UNCHANGED <<db, dbClosed, zone, zonePagerules, dnsBody, prBody,
                   fetchOrder, dns_ok, dns_records, pagerules,
                   required_dns_records, properly_proxied, conflicts, table,
                   answer, issued, pending, zone0, stages, domVars>>

\* db.get(...).catch(console.error): the domain is not in the cache, or the
\* lookup lost the race against db.close()
DbGetCatch ==
    /\ pc = "dbget"
    /\ Domain \notin db \/ dbClosed
    /\ pc' = "done"
    /\ reported' = "console.error"
    /\ dbGet' = "rejected"
    /\ UNCHANGED <<db, dbClosed, zone, zonePagerules, dnsResp, prResp, dnsBody,
                   prBody, fetchOrder, dns_ok, dns_records, pagerules,
                   required_dns_records, properly_proxied, conflicts, table,
                   answer, issued, pending, zone0, stages,
                   domVars>>

\* the provider answers GET /zones/:id/dns_records
DnsRecordsAnswered ==
    /\ dnsResp = "pending"
    /\ \E outcome \in {"ok", "fail", "rejected"} :
        /\ dnsResp' = outcome
        /\ dnsBody' = IF outcome = "ok" THEN fetchDNSRecords(zone) ELSE <<>>
    /\ fetchOrder' = Append(fetchOrder, "dns_records")
    /\ UNCHANGED <<pc, db, dbClosed, zone, zonePagerules, prResp, prBody,
                   dns_ok, dns_records, pagerules, required_dns_records,
                   properly_proxied, conflicts, table, reported, answer,
                   issued, pending, zone0, dbGet, stages,
                   domVars>>

\* the provider answers GET /zones/:id/pagerules
PagerulesAnswered ==
    /\ prResp = "pending"
    /\ \E outcome \in {"ok", "fail", "rejected"} :
        /\ prResp' = outcome
        /\ prBody' = IF outcome = "ok" THEN zonePagerules ELSE <<>>
    /\ fetchOrder' = Append(fetchOrder, "pagerules")
    /\ UNCHANGED <<pc, db, dbClosed, zone, zonePagerules, dnsResp, dnsBody,
                   dns_ok, dns_records, pagerules, required_dns_records,
                   properly_proxied, conflicts, table, reported, answer,
                   issued, pending, zone0, dbGet, stages,
                   domVars>>

\* Promise.all(...).catch(console.error): a request was rejected
PromiseAllCatch ==
    /\ pc = "fetching"
    /\ PromiseAllRejected(dnsResp, prResp)
    /\ pc' = "done"
    /\ reported' = "console.error"
    /\ UNCHANGED <<db, dbClosed, zone, zonePagerules, dnsResp, prResp, dnsBody,
                   prBody, fetchOrder, dns_ok, dns_records, pagerules,
                   required_dns_records, properly_proxied, conflicts, table,
                   answer, issued, pending, zone0, dbGet, stages,
                   domVars>>

\* Promise.all(...).then(results => ...): derive the required records,
\* classify the live ones, report, and open the prompt the case calls for
PromiseAllThen ==
    /\ pc = "fetching"
    /\ PromiseAllFulfilled(dnsResp, prResp)
    /\ dns_ok' = (dnsResp = "ok")
    /\ dns_records' = ResultOf(dnsResp, dnsBody)
    /\ IF prResp # "ok"
       THEN \* pagerules is false: iterating it throws, the catch logs it
            /\ pc' = "done"
            /\ reported' = "console.error"
            /\ UNCHANGED <<pagerules, required_dns_records, properly_proxied,
                           conflicts, table, stages>>
       ELSE LET required == buildRequiredDNSRecordsForPagerules(prBody)
                c == Classify(required, dns_records')
            IN  /\ pagerules' = prBody
                /\ required_dns_records' = required
                /\ IF HasLiveRecords(dns_ok', dns_records')
                   THEN /\ properly_proxied' = c.properly_proxied
                        /\ conflicts' = c.conflicts
                        /\ table' = c.table
                        /\ IF WillNotWork(c.properly_proxied, c.conflicts)
                           THEN /\ reported' = "will not work"
                                /\ pc' = "whichApproach"
                           ELSE /\ reported' = "congrats"
                                /\ pc' = "done"
                   ELSE /\ reported' = "no records"
                        /\ pc' = "confirmCreateIntent"
                        /\ UNCHANGED <<properly_proxied, conflicts, table>>
                /\ stages' = stages \o StagesAfterClassify(pc')
    /\ UNCHANGED <<db, dbClosed, zone, zonePagerules, dnsResp, prResp, dnsBody,
                   prBody, fetchOrder, answer, issued, pending, zone0, dbGet,
                   domVars>>

\* the user answers "How do you want to add these DNS records?"
AnswerWhichApproach ==
    /\ pc = "whichApproach"
    /\ \E approach \in {"all", "required", "skip"} :
        /\ answer' = approach
        /\ issued' = WhichApproachRequests(approach, dns_records, conflicts,
                                           required_dns_records)
    /\ pending' = Range(issued')
    /\ pc' = "done"
    /\ stages' = stages \o StagesAfterAnswer(answer')
    /\ UNCHANGED <<db, dbClosed, zone, zonePagerules, dnsResp, prResp, dnsBody,
                   prBody, fetchOrder, dns_ok, dns_records, pagerules,
                   required_dns_records, properly_proxied, conflicts, table,
                   reported, zone0, dbGet,
                   domVars>>

\* the user answers "Are you ready to create the missing DNS records ...?"
AnswerConfirmCreateIntent ==
    /\ pc = "confirmCreateIntent"
    /\ \E confirm \in BOOLEAN :
        /\ answer' = IF confirm THEN "yes" ELSE "no"
        /\ issued' = ConfirmCreateRequests(confirm, required_dns_records)
    /\ pending' = Range(issued')
    /\ pc' = "done"
    /\ stages' = stages \o StagesAfterAnswer(answer')
    /\ UNCHANGED <<db, dbClosed, zone, zonePagerules, dnsResp, prResp, dnsBody,
                   prBody, fetchOrder, dns_ok, dns_records, pagerules,
                   required_dns_records, properly_proxied, conflicts, table,
                   reported, zone0, dbGet,
                   domVars>>

\* the provider answers one of the delete / create requests
RequestAnswered ==
    /\ \E req \in pending :
        /\ zone' = ProviderApply(zone, req)
        /\ pending' = pending \ {req}
    /\ UNCHANGED <<pc, db, dbClosed, zonePagerules, dnsResp, prResp, dnsBody,
                   prBody, fetchOrder, dns_ok, dns_records, pagerules,
                   required_dns_records, properly_proxied, conflicts, table,
                   reported, answer, issued, zone0, dbGet, stages,
                   domVars>>

Next ==
    \/ Handler
    \/ DbGetThen
    \/ DbGetCatch
    \/ DnsRecordsAnswered
    \/ PagerulesAnswered
    \/ PromiseAllCatch
    \/ PromiseAllThen
    \/ AnswerWhichApproach
    \/ AnswerConfirmCreateIntent
    \/ RequestAnswered

Spec == Init /\ [][Next]_vars

(* ---------------------------------------------------------------------- *)
(* The `domains` command (exports.handler, lines 199-341)                  *)
(* ---------------------------------------------------------------------- *)
CloudDomains == {"d1", "d2"}

\* filename.substr(0, filename.length - 5)
DomainOf(f) ==
    CASE f = "d1.yaml" -> "d1"
      [] f = "d2.json" -> "d2"
      [] OTHER -> ".h"

\* filename[0] === '.'
IsDotFile(f) == f = ".hidden"

\* the description files that name no zone of the account
MissingZones(contents, zone_names) ==
    {f \in contents : ~IsDotFile(f) /\ DomainOf(f) \notin zone_names}

\* what YAML.safeLoad(fs.readFileSync(...)) gives: it throws, or it returns
\* a description with its redirects
Descriptions ==
    [loads : {FALSE}, redirects : {<<>>}]
    \cup [loads : {TRUE}, redirects : BoundedSeqs(Redirects, MaxRedirects)]

\* the descriptions a file of the directory may hold: any for d1.yaml, one
\* redirect for d2.json, and nothing that loads for the dot file
DescriptionsOf(f) ==
    CASE f = "d1.yaml" -> Descriptions
      [] f = "d2.json" -> {[loads |-> TRUE, redirects |-> <<"well-formed">>]}
      [] OTHER -> {[loads |-> FALSE, redirects |-> <<>>]}

ConfigDirs ==
    UNION {{c \in [fs -> Descriptions] : \A f \in fs : c[f] \in DescriptionsOf(f)}
           : fs \in SUBSET Files}

\* if (answers.confirmCreate)
IssuesZonePost(answer_confirmCreate) == answer_confirmCreate

\* the Page Rules are offered whatever the provider answered
OffersPageRules_Always(success) == TRUE

\* if (resp.data.success), on the answer to POST /zones
OffersPageRules(success) == success

\* if (answers.proceed)
IssuesRulePost(answer_proceed) == answer_proceed

\* description.redirects.forEach inside the try: a redirect that converts is
\* offered; one that does not either throws, which leaves the loop for the
\* catch, or comes back as a failure value, which is offered like a Page Rule
RECURSIVE ConvertFrom(_, _, _, _)
ConvertFrom(redirects, k, failure, acc) ==
    IF k > Len(redirects) THEN acc
    ELSE IF redirects[k] = "well-formed"
    THEN ConvertFrom(redirects, k + 1, failure,
                     [acc EXCEPT !.converted = @ \cup {k},
                                 !.offered = @ \cup {k}])
    ELSE IF failure = "throws"
    THEN [acc EXCEPT !.errors = @ \cup {k}]
    ELSE ConvertFrom(redirects, k + 1, failure,
                     [acc EXCEPT !.offered = @ \cup {k}])

ConvertRedirects(redirects, failure) ==
    ConvertFrom(redirects, 1, failure,
                [converted |-> {}, offered |-> {}, errors |-> {}])

\* the dns command is not running
DnsIdle ==
    /\ pc = "idle"
    /\ zone = {} /\ zone0 = {}
    /\ zonePagerules = <<>>
    /\ dnsResp = "none" /\ prResp = "none"
    /\ dnsBody = <<>> /\ prBody = <<>>
    /\ fetchOrder = <<>>
    /\ dns_ok = FALSE /\ dns_records = <<>>
    /\ pagerules = <<>>
    /\ required_dns_records = <<>>
    /\ properly_proxied = <<>> /\ conflicts = <<>> /\ table = <<>>
    /\ reported = "nothing"
    /\ answer = "none"
    /\ issued = <<>>
    /\ pending = {}
    /\ dbGet = "none"
    /\ stages = <<>>

InitDomains ==
    /\ DnsIdle
    /\ db = {}
    /\ dbClosed = FALSE
    /\ pcD = "start"
    /\ cloudZones \in SUBSET CloudDomains
    /\ configDir \in ConfigDirs
    /\ conversionFailure \in {"throws", "returns"}
    /\ dbPuts = {}
    /\ missing = {}
    /\ confirmCreateIntent = "none"
    /\ accountsResp = "none"
    /\ confirmCreate = [f \in Files |-> "none"]
    /\ zonePost = [f \in Files |-> "none"]
    /\ proceed = [key \in RuleKeys |-> "none"]
    /\ rulePost = [key \in RuleKeys |-> "none"]
    /\ converted = {}
    /\ errorsLogged = {}

\* exports.handler(argv): axios.get('/zones')
DomainsHandler ==
    /\ pcD = "start"
    /\ pcD' = "zones"
    /\ UNCHANGED <<db, dbClosed, dnsVars, cloudZones, configDir,
                   conversionFailure, dbPuts, missing, confirmCreateIntent,
                   accountsResp, confirmCreate, zonePost, proceed, rulePost,
                   converted, errorsLogged>>

\* axios.get('/zones').catch: the error is logged
ZonesCatch ==
    /\ pcD = "zones"
    /\ pcD' = "done"
    /\ errorsLogged' = errorsLogged \cup {<<"get", "/zones", 0>>}
    /\ UNCHANGED <<db, dbClosed, dnsVars, cloudZones, configDir,
                   conversionFailure, dbPuts, missing, confirmCreateIntent,
                   accountsResp, confirmCreate, zonePost, proceed, rulePost,
                   converted>>

\* axios.get('/zones').then: start a db.put per zone, call db.close(), list
\* the descriptions without a zone and ask whether to create their zones
ZonesThen ==
    /\ pcD = "zones"
    /\ dbPuts' = cloudZones
    /\ dbClosed' = TRUE
    /\ missing' = MissingZones(DOMAIN configDir, cloudZones)
    /\ pcD' = IF missing' # {} THEN "confirmCreateIntent" ELSE "done"
    /\ UNCHANGED <<db, dnsVars, cloudZones, configDir, conversionFailure,
                   confirmCreateIntent, accountsResp, confirmCreate, zonePost,
                   proceed, rulePost, converted, errorsLogged>>

\* a db.put(zone.name, zone.id) settles: the name is stored, or the put
\* fails on the closed cache and .catch(console.error) logs it
DbPutSettles ==
    /\ \E z \in dbPuts :
        /\ dbPuts' = dbPuts \ {z}
        /\ \E stored \in BOOLEAN :
            IF stored
            THEN db' = db \cup {z} /\ UNCHANGED errorsLogged
            ELSE errorsLogged' = errorsLogged \cup {<<"put", z, 0>>} /\ UNCHANGED db
    /\ UNCHANGED <<dbClosed, dnsVars, pcD, cloudZones, configDir,
                   conversionFailure, missing, confirmCreateIntent,
                   accountsResp, confirmCreate, zonePost, proceed, rulePost,
                   converted>>

\* the user answers "Are you ready to create the missing zones ...?"
AnswerConfirmCreateZones ==
    /\ pcD = "confirmCreateIntent"
    /\ \E yes \in BOOLEAN :
        /\ confirmCreateIntent' = IF yes THEN "yes" ELSE "no"
        /\ accountsResp' = IF yes THEN "pending" ELSE "none"
        /\ pcD' = IF yes THEN "accounts" ELSE "done"
    /\ UNCHANGED <<db, dbClosed, dnsVars, cloudZones, configDir,
                   conversionFailure, dbPuts, missing, confirmCreate, zonePost,
                   proceed, rulePost, converted, errorsLogged>>

\* the provider answers GET /accounts: on success one "Add <domain>" prompt
\* opens per missing description
AccountsAnswered ==
    /\ pcD = "accounts"
    /\ \E outcome \in {"ok", "fail", "rejected"} :
        /\ accountsResp' = outcome
        /\ IF outcome = "ok"
           THEN /\ confirmCreate' =
                       [f \in Files |-> IF f \in missing THEN "open" ELSE "none"]
                /\ pcD' = "adding"
                /\ UNCHANGED errorsLogged
           ELSE /\ pcD' = "done"
                /\ errorsLogged' = IF outcome = "rejected"
                                   THEN errorsLogged \cup {<<"get", "/accounts", 0>>}
                                   ELSE errorsLogged
                /\ UNCHANGED confirmCreate
    /\ UNCHANGED <<db, dbClosed, dnsVars, cloudZones, configDir,
                   conversionFailure, dbPuts, missing, confirmCreateIntent,
                   zonePost, proceed, rulePost, converted>>

\* the user answers "Add <domain> to <account>?"
AnswerConfirmCreate ==
    /\ \E f \in Files :
        /\ confirmCreate[f] = "open"
        /\ \E yes \in BOOLEAN :
            /\ confirmCreate' = [confirmCreate EXCEPT ![f] =
                                    IF yes THEN "yes" ELSE "no"]
            /\ zonePost' = [zonePost EXCEPT ![f] =
                               IF IssuesZonePost(yes) THEN "pending" ELSE @]
    /\ UNCHANGED <<db, dbClosed, dnsVars, pcD, cloudZones, configDir,
                   conversionFailure, dbPuts, missing, confirmCreateIntent,
                   accountsResp, proceed, rulePost, converted, errorsLogged>>

\* the provider answers POST /zones: on success the description is loaded
\* and its redirects are converted and offered one by one
ZonePostAnswered ==
    /\ \E f \in Files :
        /\ zonePost[f] = "pending"
        /\ \E outcome \in {"ok", "fail", "rejected"} :
            /\ zonePost' = [zonePost EXCEPT ![f] = outcome]
            /\ IF outcome # "rejected" /\ OffersPageRules(outcome = "ok")
               THEN IF configDir[f].loads
                    THEN LET c == ConvertRedirects(configDir[f].redirects,
                                                   conversionFailure)
                         IN  /\ proceed' = [key \in RuleKeys |->
                                    IF key[1] = f /\ key[2] \in c.offered
                                    THEN "open" ELSE proceed[key]]
                             /\ converted' = converted
                                    \cup {<<f, k>> : k \in c.converted}
                             /\ errorsLogged' = errorsLogged
                                    \cup {<<"convert", f, k>> : k \in c.errors}
                    ELSE /\ errorsLogged' = errorsLogged \cup {<<"load", f, 0>>}
                         /\ UNCHANGED <<proceed, converted>>
               ELSE /\ errorsLogged' = IF outcome = "rejected"
                                       THEN errorsLogged \cup {<<"post", f, 0>>}
                                       ELSE errorsLogged
                    /\ UNCHANGED <<proceed, converted>>
    /\ UNCHANGED <<db, dbClosed, dnsVars, pcD, cloudZones, configDir,
                   conversionFailure, dbPuts, missing, confirmCreateIntent,
                   accountsResp, confirmCreate, rulePost>>

\* the user answers "Shall we continue?" for one Page Rule
AnswerProceed ==
    /\ \E key \in RuleKeys :
        /\ proceed[key] = "open"
        /\ \E yes \in BOOLEAN :
            /\ proceed' = [proceed EXCEPT ![key] = IF yes THEN "yes" ELSE "no"]
            /\ rulePost' = [rulePost EXCEPT ![key] =
                               IF IssuesRulePost(yes) THEN "pending" ELSE @]
    /\ UNCHANGED <<db, dbClosed, dnsVars, pcD, cloudZones, configDir,
                   conversionFailure, dbPuts, missing, confirmCreateIntent,
                   accountsResp, confirmCreate, zonePost, converted,
                   errorsLogged>>

\* the provider answers POST /zones/:id/pagerules
RulePostAnswered ==
    /\ \E key \in RuleKeys :
        /\ rulePost[key] = "pending"
        /\ \E outcome \in {"ok", "fail", "rejected"} :
            /\ rulePost' = [rulePost EXCEPT ![key] = outcome]
            /\ errorsLogged' = IF outcome = "rejected"
                               THEN errorsLogged \cup {<<"post", key[1], key[2]>>}
                               ELSE errorsLogged
    /\ UNCHANGED <<db, dbClosed, dnsVars, pcD, cloudZones, configDir,
                   conversionFailure, dbPuts, missing, confirmCreateIntent,
                   accountsResp, confirmCreate, zonePost, proceed, converted>>

NextDomains ==
    \/ DomainsHandler
    \/ ZonesCatch
    \/ ZonesThen
    \/ DbPutSettles
    \/ AnswerConfirmCreateZones
    \/ AccountsAnswered
    \/ AnswerConfirmCreate
    \/ ZonePostAnswered
    \/ AnswerProceed
    \/ RulePostAnswered

SpecDomains == InitDomains /\ [][NextDomains]_vars

(* ---------------------------------------------------------------------- *)
(* Vocabulary of the properties                                            *)
(* ---------------------------------------------------------------------- *)
\* the handler has derived the required records and looked at dns_records
Classified == reported \in {"will not work", "congrats", "no records"}

\* the handler has filled the buckets from a non-empty list of live records
Bucketed == reported \in {"will not work", "congrats"}

Satisfies(line, req) ==
    Slot(line) = Slot(req) /\ line.content = req.content
                           /\ line.proxied = req.proxied

ConflictsWith(line, req) ==
    Slot(line) = Slot(req) /\ (line.content # req.content
                               \/ line.proxied # req.proxied)

\* section 3: every required record has a satisfying live record and no
\* required (type, name) has a conflicting live record
FullyMet(required, records) ==
    /\ \A j \in DOMAIN required :
           \E i \in DOMAIN records : Satisfies(records[i], required[j])
    /\ \A j \in DOMAIN required :
           \A i \in DOMAIN records : ~ConflictsWith(records[i], required[j])

RowsOf(colour) == {table[i].line : i \in {k \in DOMAIN table : table[k].colour = colour}}

Deleted == {issued[i].rec : i \in {k \in DOMAIN issued : issued[k].op = "delete"}}

Created == {issued[i].rec : i \in {k \in DOMAIN issued : issued[k].op = "create"}}

RequiredSlots == {Slot(required_dns_records[j]) : j \in DOMAIN required_dns_records}

\* C1: the requirement set is reported as met (and no remediation offered)
\* exactly when every required record has a matching live record and no
\* live record conflicts with a required (type, name).
C1_ReportedMetIffFullyMet ==
    Bucketed =>
        ((reported = "congrats") <=> FullyMet(required_dns_records, dns_records))

\* C2: without an affirmative answer to a prompt (no answer yet, 'skip', or
\* a declined confirmation) no delete and no create has been issued and the
\* zone's records are what they were when the run started.
C2_NoMutationWithoutConsent ==
    (answer \notin {"all", "required", "yes"}) =>
        (issued = <<>> /\ pending = {} /\ zone = zone0)

C2_Witness ==
    /\ pc = "done"
    /\ answer = "skip"
    /\ Len(conflicts) > 0
    /\ Len(required_dns_records) > 0

\* C3: no create for a (type, name) is in flight while a delete for the same
\* (type, name) has not yet been answered.
C3_DeletesCompleteBeforeCreate ==
    \A d \in pending : \A c \in pending :
        (d.op = "delete" /\ c.op = "create") => Slot(d.rec) # Slot(c.rec)

\* C4: under 'required' the records submitted for deletion are exactly the
\* live records classified as conflicting, the records submitted for creation
\* are exactly the required ones, and every live record classified as
\* satisfying or unrelated is neither deleted nor removed from the zone.
C4_RequiredPlanExact ==
    (answer = "required") =>
        /\ Deleted = RowsOf("orange")
        /\ Deleted = Range(conflicts)
        /\ Created = Range(required_dns_records)
        /\ \A l \in RowsOf("green") \cup RowsOf("white") :
               l \notin Deleted /\ l \in zone

C4_Witness ==
    /\ answer = "required"
    /\ pending = {}
    /\ RowsOf("orange") # {}
    /\ RowsOf("green") # {}

\* C5: under 'all' every live record of the zone is submitted for deletion,
\* every required record is submitted for creation, and the deletions are
\* submitted before the creations.
C5_ReplaceAllPlanExact ==
    (answer = "all") =>
        /\ Deleted = zone0
        /\ Deleted = Range(dns_records)
        /\ Created = Range(required_dns_records)
        /\ Len(issued) = Len(dns_records) + Len(required_dns_records)
        /\ \A i \in DOMAIN issued : \A j \in DOMAIN issued :
               (issued[i].op = "delete" /\ issued[j].op = "create") => i < j

C5_Witness ==
    /\ answer = "all"
    /\ pending = {}
    /\ RowsOf("orange") # {}
    /\ RowsOf("white") # {}
    /\ Len(required_dns_records) = 2

\* the live records after a plan's deletions and creations have all succeeded
Executed(records, plan) ==
    (Range(records) \ {plan[i].rec : i \in {k \in DOMAIN plan : plan[k].op = "delete"}})
    \cup {plan[i].rec : i \in {k \in DOMAIN plan : plan[k].op = "create"}}

\* C6: once the 'required' plan has been executed successfully, running the
\* classification again reports the requirement set as met, with no
\* conflicting live record and no required record missing, and a second
\* 'required' plan changes nothing.
C6_IdempotentRecovery ==
    (pc = "whichApproach") =>
        LET plan == WhichApproachRequests("required", dns_records, conflicts,
                                          required_dns_records)
            live2 == fetchDNSRecords(Executed(dns_records, plan))
            c2 == Classify(required_dns_records, live2)
            plan2 == WhichApproachRequests("required", live2, c2.conflicts,
                                           required_dns_records)
        IN  /\ HasLiveRecords(TRUE, live2)
            /\ ~WillNotWork(c2.properly_proxied, c2.conflicts)
            /\ c2.conflicts = <<>>
            /\ Range(required_dns_records) \subseteq Range(live2)
            /\ Executed(live2, plan2) = Range(live2)

C8_UnrelatedNeverDeleted ==
    Bucketed =>
        \A i \in DOMAIN dns_records :
            LET l == dns_records[i]
            IN  Slot(l) \notin RequiredSlots =>
                    /\ l \notin Range(properly_proxied)
                    /\ l \notin Range(conflicts)
                    /\ l \notin Deleted
                    /\ l \in zone

\* C8 (amended): a live record whose (type, name) is not required is in
\* neither bucket; 'required' and 'skip' do not delete it and it stays in
\* the zone, while 'all' submits it for deletion.
C8_UnrelatedKeptUnlessAll ==
    Bucketed =>
        \A i \in DOMAIN dns_records :
            LET l == dns_records[i]
            IN  Slot(l) \notin RequiredSlots =>
                    /\ l \notin Range(properly_proxied)
                    /\ l \notin Range(conflicts)
                    /\ table[i].colour = "white"
                    /\ (answer # "all") => (l \notin Deleted /\ l \in zone)
                    /\ (answer = "all") => (l \in Deleted)

C8_Witness ==
    /\ answer = "all"
    /\ pending = {}
    /\ Len(required_dns_records) > 0
    /\ \E l \in RowsOf("white") : l \in zone0 /\ l \notin zone

InBucket(l, bucket) == IF l \in bucket THEN 1 ELSE 0

\* C9: the classification puts every live record in exactly one of the
\* buckets satisfying (properly_proxied), conflicting (conflicts) and
\* unrelated (the rows left white).
C9_PartitionTotality ==
    Bucketed =>
        /\ Len(table) = Len(dns_records)
        /\ \A i \in DOMAIN dns_records :
               /\ table[i].line = dns_records[i]
               /\ InBucket(dns_records[i], Range(properly_proxied))
                  + InBucket(dns_records[i], Range(conflicts))
                  + InBucket(dns_records[i], RowsOf("white")) = 1
        /\ Len(properly_proxied) + Len(conflicts) + Cardinality(RowsOf("white"))
               = Len(dns_records)

C9_Witness ==
    /\ Bucketed
    /\ Len(properly_proxied) > 0
    /\ Len(conflicts) > 0

\* C10 (as stated): the DNS records are never answered before the Page
\* Rules are.
C10_DnsAnsweredAfterPagerules ==
    (Len(fetchOrder) > 0) => (fetchOrder[1] = "pagerules")

\* C10 (amended): the two requests are issued together and may be answered
\* in either order; the required records are derived and the live records
\* classified only after both have been answered.
C10_ClassifiedAfterBothAnswered ==
    /\ (dnsResp = "none") <=> (prResp = "none")
    /\ Classified =>
           /\ dnsResp \in {"ok", "fail"}
           /\ prResp = "ok"
           /\ Range(fetchOrder) = {"dns_records", "pagerules"}

C10_Witness ==
    /\ reported = "will not work"
    /\ fetchOrder = <<"dns_records", "pagerules">>

StageRank(st) ==
    CASE st = "Fetch" -> 1
      [] st = "Classify" -> 2
      [] st = "Choose-strategy" -> 3
      [] st = "Plan" -> 4
      [] st = "Execute" -> 5

\* the number of runs of consecutive requests of one kind
Batches(requests, op) ==
    Cardinality({i \in DOMAIN requests :
        /\ requests[i].op = op
        /\ (i = 1 \/ requests[i - 1].op # op)})

\* C12: the stages of a run are entered in the order Fetch, Classify,
\* Choose-strategy, Plan, Execute, each at most once and none without the
\* one before it; the strategy is asked for only when the requirement set
\* was reported as not met; a run issues at most one batch of deletions and
\* at most one batch of creations, and no request twice.
C12_LinearWorkflow ==
    /\ \A i \in DOMAIN stages : \A j \in DOMAIN stages :
           (i < j) => (StageRank(stages[i]) < StageRank(stages[j]))
    /\ \A i \in DOMAIN stages : StageRank(stages[i]) = i
    /\ ("Choose-strategy" \in Range(stages)) =>
           (reported \in {"will not work", "no records"})
    /\ (reported = "congrats") => (stages = <<"Fetch", "Classify">>)
    /\ (issued # <<>>) => ("Execute" \in Range(stages))
    /\ Batches(issued, "delete") <= 1
    /\ Batches(issued, "create") <= 1
    /\ \A i \in DOMAIN issued : \A j \in DOMAIN issued :
           (i # j) => (issued[i] # issued[j])

C12_Witness ==
    /\ stages = <<"Fetch", "Classify", "Choose-strategy", "Plan", "Execute">>
    /\ Batches(issued, "delete") = 1
    /\ Batches(issued, "create") = 1
    /\ pending = {}
    /\ zone # zone0

\* C13: when the zone has no live record and a record is required, the
\* requirement set is reported as not met with nothing conflicting, and the
\* confirmed remediation creates exactly the required records and deletes
\* none.
C13_EmptyZoneCreatesRequired ==
    (Classified /\ dnsResp = "ok" /\ zone0 = {}
                /\ Len(required_dns_records) > 0) =>
        /\ reported = "no records"
        /\ conflicts = <<>>
        /\ properly_proxied = <<>>
        /\ answer \in {"none", "yes", "no"}
        /\ (answer = "yes") =>
               /\ Created = Range(required_dns_records)
               /\ Len(issued) = Len(required_dns_records)
               /\ Deleted = {}
               /\ (pending = {}) => (zone = Range(required_dns_records))
        /\ (answer # "yes") => (issued = <<>>)

C13_Witness ==
    /\ zone0 = {}
    /\ dnsResp = "ok"
    /\ answer = "yes"
    /\ pending = {}
    /\ Len(required_dns_records) = 2
    /\ zone = Range(required_dns_records)

\* the first Page Rule that asks for the (type, name) of a record
FirstRuleFor(rules, rec) ==
    CHOOSE k \in DOMAIN rules :
        /\ Slot(requiredDNSRecordFor(rules[k])) = Slot(rec)
        /\ \A m \in 1..(k - 1) : Slot(requiredDNSRecordFor(rules[m])) # Slot(rec)

\* C14: the required records hold at most one record per (type, name), the
\* one of the first Page Rule asking for it, and one for every Page Rule's
\* hostname; without Page Rules the required set is empty and the run goes
\* on to the classification.
C14_RequiredDeduplicated ==
    /\ Classified =>
        /\ \A i \in DOMAIN required_dns_records :
           \A j \in DOMAIN required_dns_records :
               (i # j) => Slot(required_dns_records[i]) # Slot(required_dns_records[j])
        /\ \A k \in DOMAIN pagerules :
               Slot(requiredDNSRecordFor(pagerules[k])) \in RequiredSlots
        /\ \A j \in DOMAIN required_dns_records :
               /\ \E k \in DOMAIN pagerules :
                      Slot(requiredDNSRecordFor(pagerules[k]))
                          = Slot(required_dns_records[j])
               /\ required_dns_records[j] = requiredDNSRecordFor(
                      pagerules[FirstRuleFor(pagerules, required_dns_records[j])])
        /\ (pagerules = <<>>) => (required_dns_records = <<>>)
    /\ (prResp = "ok" /\ dnsResp \in {"ok", "fail"} /\ pc # "fetching") =>
           Classified

C14_Witness ==
    /\ Classified
    /\ Len(pagerules) = 2
    /\ pagerules[1].host = pagerules[2].host
    /\ pagerules[1].proxied # pagerules[2].proxied
    /\ Len(required_dns_records) = 1

\* C15: after the provider has answered the DNS-records request with
\* success = false, no delete and no create is issued and the zone keeps its
\* records.
C15_FailedFetchNoMutation ==
    (dnsResp = "fail") => (issued = <<>> /\ zone = zone0)

\* C16: the cache is not closed while a db.get or a db.put is pending.
C16_CacheOpenWhilePending ==
    ~(dbClosed /\ (dbGet = "pending" \/ dbPuts # {}))

\* C18: when the domain is not in the cache the lookup is rejected, and
\* after a rejected lookup the run has ended with the error reported and
\* without any request to the provider: no fetch, no delete, no create.
C18_CacheMissNoRequests ==
    /\ (Domain \notin db) => (dbGet # "resolved")
    /\ (dbGet = "rejected") =>
           /\ pc = "done"
           /\ reported = "console.error"
           /\ dnsResp = "none" /\ prResp = "none"
           /\ fetchOrder = <<>>
           /\ issued = <<>> /\ pending = {}
           /\ zone = zone0

C18_Witness ==
    /\ Domain \notin db
    /\ dbGet = "rejected"
    /\ pc = "done"
    /\ zonePagerules # <<>>

\* C11: once a description has been loaded for a created zone, every
\* redirect that converts has been converted and offered for creation, and
\* every redirect that does not convert has its failure logged and is not
\* offered: a failure neither stops the redirects after it nor passes
\* unreported.
C11_PerRedirectFailure ==
    \A f \in DOMAIN configDir :
        (zonePost[f] = "ok" /\ configDir[f].loads) =>
            \A k \in DOMAIN configDir[f].redirects :
                IF configDir[f].redirects[k] = "well-formed"
                THEN <<f, k>> \in converted /\ proceed[<<f, k>>] # "none"
                ELSE /\ <<"convert", f, k>> \in errorsLogged
                     /\ proceed[<<f, k>>] = "none"

\* C17: a zone is requested only after a yes to the global prompt and to
\* the prompt of its own domain; a Page Rule is offered only after its zone
\* was created with success and requested only after a yes to its own
\* prompt; a declined prompt issues no request for the declined item.
C17_RequestsAfterConfirmation ==
    /\ \A f \in Files :
        /\ (zonePost[f] # "none") =>
               /\ confirmCreateIntent = "yes"
               /\ accountsResp = "ok"
               /\ confirmCreate[f] = "yes"
        /\ (confirmCreate[f] \in {"no", "open", "none"}) => (zonePost[f] = "none")
        /\ \A k \in 1..MaxRedirects :
               /\ (proceed[<<f, k>>] # "none") => (zonePost[f] = "ok")
               /\ (rulePost[<<f, k>>] # "none") =>
                      (zonePost[f] = "ok" /\ proceed[<<f, k>>] = "yes")
               /\ (proceed[<<f, k>>] \in {"no", "open"}) =>
                      (rulePost[<<f, k>>] = "none")
    /\ (confirmCreateIntent # "yes") =>
           /\ accountsResp = "none"
           /\ \A f \in Files : zonePost[f] = "none"
           /\ \A key \in RuleKeys : rulePost[key] = "none"

C17_Witness ==
    /\ rulePost[<<"d1.yaml", 1>>] = "ok"
    /\ proceed[<<"d1.yaml", 2>>] = "no"
    /\ confirmCreate["d2.json"] = "no"

====
